---- MODULE Spec2Model ----
(***************************************************************************)
(* Model of LaplacianSmoothingApp._laplacian_smooth (src/main.py).         *)
(*                                                                         *)
(* One invocation is a small state machine: the face-decoding while loop   *)
(* (one step per face), the connectivity pass, the relaxation loop (one    *)
(* step per pass) and the return.  NumPy arrays are objects on a heap, so  *)
(* that copying and aliasing are visible; coordinates are exact rationals  *)
(* <<numerator, denominator>> standing for the floating-point values.      *)
(***************************************************************************)
EXTENDS Integers, Sequences, FiniteSets

VARIABLES
    heap,            \* position arrays allocated so far; a reference is an index
    points,          \* argument: reference to the caller's position array
    faces_arr,       \* argument: the flat face array (also the local arr)
    lambd,           \* argument: smoothing factor
    iterations,      \* argument: iteration count
    i,               \* read position of the decoding loop
    faces,           \* list of decoded faces
    N,               \* len(points)
    edge_count,      \* dict: normalised edge -> multiplicity
    adj,             \* dict: vertex -> neighbour set
    boundary_verts,  \* set of boundary vertices
    new_pts,         \* reference to the current position array (0: not bound yet)
    passes,          \* passes of the relaxation loop completed
    pc,              \* "decode", "smooth", "done" or "error"
    result,          \* reference returned by the call (0: nothing returned)
    err,             \* exception raised by the call ("none": no exception)
    run,             \* number of the current invocation in a chain of invocations
    prior_iters      \* sum of the iteration counts of the earlier invocations

vars == << heap, points, faces_arr, lambd, iterations, i, faces, N, edge_count,
           adj, boundary_verts, new_pts, passes, pc, result, err, run, prior_iters >>

-----------------------------------------------------------------------------
(* Bounds of the model *)

MaxN == 4
MaxFlatLen == 2
MaxIter == 2
MaxChain == 3
MaxFaces == 5

-----------------------------------------------------------------------------
(* Exact rational arithmetic for the coordinate values *)

Abs(x) == IF x < 0 THEN 0 - x ELSE x

RECURSIVE GCD(_, _)
GCD(a, b) == IF b = 0 THEN a ELSE GCD(b, a % b)

RNorm(n, d) ==
    LET s == IF d < 0 THEN 0 - 1 ELSE 1
        g == GCD(Abs(n), Abs(d))
    IN  << (s * n) \div g, (s * d) \div g >>

R(n) == << n, 1 >>
RAdd(x, y) == RNorm(x[1] * y[2] + y[1] * x[2], x[2] * y[2])
RSub(x, y) == RNorm(x[1] * y[2] - y[1] * x[2], x[2] * y[2])
RMul(x, y) == RNorm(x[1] * y[1], x[2] * y[2])
RDivInt(x, k) == RNorm(x[1], x[2] * k)

(* Row vectors (one position), coordinate by coordinate *)
VAdd(p, q) == [c \in DOMAIN p |-> RAdd(p[c], q[c])]
VSub(p, q) == [c \in DOMAIN p |-> RSub(p[c], q[c])]
VScale(k, p) == [c \in DOMAIN p |-> RMul(k, p[c])]
VDivInt(p, k) == [c \in DOMAIN p |-> RDivInt(p[c], k)]
VZero == << R(0), R(0), R(0) >>

-----------------------------------------------------------------------------
(* Python sequence semantics *)

\* range(n)
Range(n) == [k \in 1..n |-> k - 1]

\* a[k] for -len(a) <= k < len(a)
PyIndex(a, k) == IF k >= 0 THEN a[k + 1] ELSE a[Len(a) + k + 1]

\* a slice bound: negative bounds count from the end, then clamp to [0, len]
PyBound(a, k) ==
    IF k < 0 THEN (IF k + Len(a) < 0 THEN 0 ELSE k + Len(a))
    ELSE IF k > Len(a) THEN Len(a) ELSE k

\* a[lo:hi]
PySlice(a, lo, hi) ==
    LET l == PyBound(a, lo)
        h == PyBound(a, hi)
    IN  IF l < h THEN SubSeq(a, l + 1, h) ELSE << >>

-----------------------------------------------------------------------------
(* NumPy array objects *)

\* len(x) of a position array (a function on 0..len-1)
ArrLen(a) == Cardinality(DOMAIN a)

\* np.array(x) and x.copy(): a new array object holding the same values
NpCopyAlias(h, r) == [heap |-> h, ref |-> r]
NpCopy(h, r) == [heap |-> Append(h, h[r]), ref |-> Len(h) + 1]

-----------------------------------------------------------------------------
(* Connectivity pass *)

\* tuple(sorted((v1, v2)))
EdgeKeyDirected(v1, v2) == << v1, v2 >>
EdgeKey(v1, v2) == IF v1 <= v2 THEN << v1, v2 >> ELSE << v2, v1 >>

\* v1, v2 of position j of a face (the sequence holds face[0] at index 1)
FaceV1(face, j) == face[j + 1]
FaceV2(face, j) == face[((j + 1) % Len(face)) + 1]

\* the (face, j) pairs of the double loop that are not skipped as v1 == v2
EdgeOccurrences(fs) ==
    { o \in UNION { {<< f, j >> : j \in 0..(Len(fs[f]) - 1)} : f \in 1..Len(fs) } :
        FaceV1(fs[o[1]], o[2]) # FaceV2(fs[o[1]], o[2]) }

OccKey(fs, o) == EdgeKey(FaceV1(fs[o[1]], o[2]), FaceV2(fs[o[1]], o[2]))

\* edge_count after the loop over the faces
EdgeCount(fs) ==
    LET occ == EdgeOccurrences(fs)
        keys == { OccKey(fs, o) : o \in occ }
    IN  [e \in keys |-> Cardinality({ o \in occ : OccKey(fs, o) = e })]

\* adj[u] or adj[v] raises KeyError for a vertex that is no key of adj
AdjKeyError(ec, n) ==
    \E e \in DOMAIN ec : e[1] \notin 0..(n - 1) \/ e[2] \notin 0..(n - 1)

\* adj after the loop over edge_count.items()
BuildAdj(ec, n) ==
    [v \in 0..(n - 1) |->
        { e[2] : e \in { k \in DOMAIN ec : k[1] = v } } \cup
        { e[1] : e \in { k \in DOMAIN ec : k[2] = v } }]

\* {u for (u, v), cnt in edge_count.items() if cnt == 1 for u in (u, v)}
BoundaryVerts(ec) ==
    { e[1] : e \in { k \in DOMAIN ec : ec[k] = 1 } } \cup
    { e[2] : e \in { k \in DOMAIN ec : ec[k] = 1 } }

-----------------------------------------------------------------------------
(* Relaxation loop *)

\* idx in boundary_verts or len(adj[idx]) == 0
IsFixedIsolatedOnly(idx, bv, ad) == ad[idx] = {}
IsFixed(idx, bv, ad) == idx \in bv \/ ad[idx] = {}

RECURSIVE VSum(_, _)
VSum(pts, S) ==
    IF S = {} THEN VZero
    ELSE LET v == CHOOSE x \in S : TRUE
         IN  VAdd(pts[v], VSum(pts, S \ {v}))

\* np.mean(new_pts[nbr_indices], axis=0)
NbrAvg(pts, nbrs) == VDivInt(VSum(pts, nbrs), Cardinality(nbrs))

\* new_pts[idx] + lambd * (nbr_avg - new_pts[idx])
RelaxInverted(pts, nbrs, idx, lam) ==
    VAdd(NbrAvg(pts, nbrs), VScale(lam, VSub(pts[idx], NbrAvg(pts, nbrs))))
Relax(pts, nbrs, idx, lam) ==
    VAdd(pts[idx], VScale(lam, VSub(NbrAvg(pts, nbrs), pts[idx])))

\* the array the right-hand side reads: new_pts, never temp
ReadFromTemp(h, src, dst) == h[dst]
ReadArray(h, src, dst) == h[src]

\* the loop over the vertices, visiting them in the given order and
\* writing temp[idx] (the array dst) in place
RECURSIVE SmoothLoop(_, _, _, _, _, _, _)
SmoothLoop(h, src, dst, order, ad, bv, lam) ==
    IF order = << >> THEN h
    ELSE LET idx == Head(order)
             h2 == IF IsFixed(idx, bv, ad) THEN h
                   ELSE [h EXCEPT ![dst][idx] =
                            Relax(ReadArray(h, src, dst), ad[idx], idx, lam)]
         IN  SmoothLoop(h2, src, dst, Tail(order), ad, bv, lam)

\* the body of one pass: temp = new_pts.copy(); for idx in range(N): ...
\* gives the heap after the pass and the reference new_pts is rebound to
OnePass(h, src, n, ad, bv, lam) ==
    LET c == NpCopy(h, src)
    IN  [heap |-> SmoothLoop(c.heap, src, c.ref, Range(n), ad, bv, lam),
         ref |-> c.ref]

\* len(range(iterations)): the number of passes the loop makes
PassesToRunPlusOne(k) == IF k + 1 > 0 THEN k + 1 ELSE 0
PassesToRun(k) == IF k > 0 THEN k ELSE 0

\* the passes of the relaxation loop, from the array at ref
RECURSIVE IteratePasses(_, _, _, _, _, _, _)
IteratePasses(h, ref, n, ad, bv, lam, k) ==
    IF k = 0 THEN h[ref]
    ELSE LET p == OnePass(h, ref, n, ad, bv, lam)
         IN  IteratePasses(p.heap, p.ref, n, ad, bv, lam, k - 1)

\* the value the function returns for a position array, a list of decoded
\* faces, lambd and iterations (when the connectivity pass raises nothing)
SmoothResult(pts, fs, lam, k) ==
    LET c == NpCopy(<< pts >>, 1)
        n == ArrLen(pts)
        ec == EdgeCount(fs)
    IN  IteratePasses(c.heap, c.ref, n, BuildAdj(ec, n), BoundaryVerts(ec), lam,
                      PassesToRun(k))

-----------------------------------------------------------------------------
(* Inputs *)

\* Position arrays: for fixed connectivity the relaxation is linear in the
\* positions, so the arrays with all vertices at the origin PosA except
\* possibly one, at PosB, are a basis of the inputs.
PosA == << R(0), R(0), R(0) >>
PosB == << R(6), R(0 - 3), R(12) >>

PointArrays ==
    UNION { { [v \in 0..(n - 1) |-> IF v = d THEN PosB ELSE PosA] : d \in 0..n } :
            n \in 0..MaxN }

FlatVals == (0 - 2)..2
FlatArrays == UNION { [1..n -> FlatVals] : n \in 0..MaxFlatLen }

\* size-prefixed meshes
QuadTwoTriangles == << 3, 0, 1, 2,  3, 0, 2, 3 >>
TriangleFan == << 3, 0, 1, 3,  3, 1, 2, 3,  3, 2, 0, 3 >>
Tetrahedron == << 3, 0, 1, 2,  3, 0, 3, 1,  3, 1, 3, 2,  3, 2, 3, 0 >>
DoubleTriangle == << 3, 0, 1, 2,  3, 0, 2, 1 >>
QuadFace == << 4, 0, 1, 2, 3 >>
Digon == << 2, 0, 1 >>
DigonChain == << 2, 0, 1,  2, 1, 2 >>
Meshes == { QuadTwoTriangles, TriangleFan, Tetrahedron, DoubleTriangle,
            QuadFace, Digon, DigonChain }

FaceArrays == Meshes \cup FlatArrays

Lambdas == { R(0), << 1, 2 >>, R(1), << 3, 2 >> }
Iters == (0 - 1)..MaxIter

-----------------------------------------------------------------------------
(* The call *)

Init ==
    /\ \E p \in PointArrays : heap = << p >>
    /\ points = 1
    /\ faces_arr \in FaceArrays
    /\ lambd \in Lambdas
    /\ iterations \in Iters
    /\ i = 0
    /\ faces = << >>
    /\ N = 0
    /\ edge_count = << >>
    /\ adj = << >>
    /\ boundary_verts = {}
    /\ new_pts = 0
    /\ passes = 0
    /\ pc = "decode"
    /\ result = 0
    /\ err = "none"
    /\ run = 1
    /\ prior_iters = 0

\* one iteration of `while i < len(arr)`: n = arr[i]; faces.append(...); i += 1 + n
DecodeFace ==
    /\ pc = "decode"
    /\ i < Len(faces_arr)
    /\ i >= 0 - Len(faces_arr)
    /\ Len(faces) < MaxFaces
    /\ LET n == PyIndex(faces_arr, i)
       IN  /\ faces' = Append(faces, PySlice(faces_arr, i + 1, i + 1 + n))
           /\ i' = i + 1 + n
    /\ UNCHANGED << heap, points, faces_arr, lambd, iterations, N, edge_count, adj,
                    boundary_verts, new_pts, passes, pc, result, err, run, prior_iters >>

\* arr[i] with i < -len(arr) raises IndexError
DecodeIndexError ==
    /\ pc = "decode"
    /\ i < Len(faces_arr)
    /\ i < 0 - Len(faces_arr)
    /\ pc' = "error"
    /\ err' = "IndexError"
    /\ UNCHANGED << heap, points, faces_arr, lambd, iterations, i, faces, N, edge_count,
                    adj, boundary_verts, new_pts, passes, result, run, prior_iters >>

\* the loop has ended: points = np.array(points), the connectivity pass,
\* new_pts = points.copy()
BuildConnectivity ==
    /\ pc = "decode"
    /\ ~(i < Len(faces_arr))
    /\ LET c1 == NpCopy(heap, points)
           n == ArrLen(c1.heap[c1.ref])
           ec == EdgeCount(faces)
           c2 == NpCopy(c1.heap, c1.ref)
       IN  /\ ~AdjKeyError(ec, n)
           /\ N' = n
           /\ edge_count' = ec
           /\ adj' = BuildAdj(ec, n)
           /\ boundary_verts' = BoundaryVerts(ec)
           /\ heap' = c2.heap
           /\ new_pts' = c2.ref
    /\ pc' = "smooth"
    /\ UNCHANGED << points, faces_arr, lambd, iterations, i, faces, passes, result,
                    err, run, prior_iters >>

\* adj[u].add(v) / adj[v].add(u) raises KeyError
BuildKeyError ==
    /\ pc = "decode"
    /\ ~(i < Len(faces_arr))
    /\ LET c1 == NpCopy(heap, points)
           n == ArrLen(c1.heap[c1.ref])
           ec == EdgeCount(faces)
       IN  /\ AdjKeyError(ec, n)
           /\ N' = n
           /\ edge_count' = ec
           /\ heap' = c1.heap
    /\ pc' = "error"
    /\ err' = "KeyError"
    /\ UNCHANGED << points, faces_arr, lambd, iterations, i, faces, adj, boundary_verts,
                    new_pts, passes, result, run, prior_iters >>

\* one pass of `for _ in range(iterations)`
SmoothPass ==
    /\ pc = "smooth"
    /\ passes < PassesToRun(iterations)
    /\ LET p == OnePass(heap, new_pts, N, adj, boundary_verts, lambd)
       IN  /\ heap' = p.heap
           /\ new_pts' = p.ref
    /\ passes' = passes + 1
    /\ UNCHANGED << points, faces_arr, lambd, iterations, i, faces, N, edge_count, adj,
                    boundary_verts, pc, result, err, run, prior_iters >>

\* return new_pts
Return ==
    /\ pc = "smooth"
    /\ ~(passes < PassesToRun(iterations))
    /\ result' = new_pts
    /\ pc' = "done"
    /\ UNCHANGED << heap, points, faces_arr, lambd, iterations, i, faces, N, edge_count,
                    adj, boundary_verts, new_pts, passes, err, run, prior_iters >>

\* a caller invokes the function again on the positions it returned, with
\* the same face array and smoothing factor
Reinvoke ==
    /\ pc = "done"
    /\ iterations >= 1
    /\ \E k \in 1..MaxIter :
          /\ prior_iters + iterations + k <= MaxChain
          /\ iterations' = k
    /\ points' = result
    /\ prior_iters' = prior_iters + iterations
    /\ run' = run + 1
    /\ i' = 0
    /\ faces' = << >>
    /\ N' = 0
    /\ edge_count' = << >>
    /\ adj' = << >>
    /\ boundary_verts' = {}
    /\ new_pts' = 0
    /\ passes' = 0
    /\ pc' = "decode"
    /\ result' = 0
    /\ UNCHANGED << heap, faces_arr, lambd, err >>

Next ==
    \/ DecodeFace
    \/ DecodeIndexError
    \/ BuildConnectivity
    \/ BuildKeyError
    \/ SmoothPass
    \/ Return
    \/ Reinvoke

Spec == Init /\ [][Next]_vars

-----------------------------------------------------------------------------
(* Properties *)

Vertices == 0..(N - 1)

\* a vertex the relaxation must leave alone: in the boundary set, or with
\* an empty neighbour set
Anchored(v) == v \in boundary_verts \/ adj[v] = {}

\* the centroid of the neighbours of v in the position array pts
Centroid(pts, v) == VDivInt(VSum(pts, adj[v]), Cardinality(adj[v]))

\* all orders in which the vertices of S can be visited
RECURSIVE Orders(_)
Orders(S) ==
    IF S = {} THEN { << >> }
    ELSE UNION { { << x >> \o o : o \in Orders(S \ { x }) } : x \in S }

OrdersOfRange == [n \in 0..MaxN |-> Orders(0..(n - 1))]
VisitOrders == OrdersOfRange[N]

\* the number of times the unordered pair {a, b} occurs as consecutive
\* vertices (wrap-around included) of a face, in either direction
Multiplicity(a, b) ==
    Cardinality({ o \in UNION { {<< f, j >> : j \in 0..(Len(faces[f]) - 1)} :
                                  f \in 1..Len(faces) } :
                    { FaceV1(faces[o[1]], o[2]), FaceV2(faces[o[1]], o[2]) } = { a, b } })

\* a face with at least 3 unique vertices, all of them in [0, N)
WellFormedFace(face) ==
    /\ \A k \in 1..Len(face) : face[k] \in Vertices
    /\ Cardinality({ face[k] : k \in 1..Len(face) }) >= 3

\* x <= y on rationals with positive denominators
RLeq(x, y) == x[1] * y[2] <= y[1] * x[2]

\* lambd in [0, 1]
InUnitInterval(x) == RLeq(R(0), x) /\ RLeq(x, R(1))

\* the connectivity pass has run on at least one vertex and one face, and
\* every face is well formed
ProperMesh ==
    /\ pc \in { "smooth", "done" }
    /\ N >= 1
    /\ Len(faces) >= 1
    /\ \A f \in 1..Len(faces) : WellFormedFace(faces[f])

\* C1: every vertex that is in the boundary set or has no neighbour keeps
\* its position in every single pass, and has in the returned array the
\* position it had in the input array.
C1_AnchoredVerticesKeepPosition ==
    /\ [](pc = "done" =>
            \A v \in Vertices : Anchored(v) => heap[result][v] = heap[points][v])
    /\ [][SmoothPass =>
            \A v \in Vertices : Anchored(v) => heap'[new_pts'][v] = heap[new_pts][v]]_vars

C1_Witness ==
    /\ pc = "done"
    /\ passes >= 1
    /\ \E v \in Vertices : v \in boundary_verts
    /\ \E v \in Vertices : ~Anchored(v) /\ heap[result][v] # heap[points][v]

\* C2: a call with iterations < 1 or lambd outside [0, 1] is rejected
\* before any pass runs and returns no position array (stated for calls
\* whose mesh is non-empty and well formed, so that the parameter is the
\* only defect).
C2_InvalidParameterRejected ==
    (/\ iterations < 1 \/ ~InUnitInterval(lambd)
     /\ ProperMesh)
        => (pc # "done" /\ passes = 0 /\ result = 0)

\* C3: in every pass each free vertex gets old + lambd * (centroid - old),
\* with old and the centroid read from the array of the previous pass, and
\* the array a pass produces is the same for every visiting order.
C3_JacobiUpdate ==
    [][SmoothPass =>
        /\ \A v \in Vertices : ~Anchored(v) =>
              heap'[new_pts'][v] =
                 VAdd(heap[new_pts][v],
                      VScale(lambd, VSub(Centroid(heap[new_pts], v), heap[new_pts][v])))
        /\ \A order \in VisitOrders :
              LET c == NpCopy(<< heap[new_pts] >>, 1)
              IN  SmoothLoop(c.heap, 1, c.ref, order, adj, boundary_verts,
                             lambd)[c.ref] = heap'[new_pts']]_vars

C3_Witness ==
    /\ pc = "smooth"
    /\ passes >= 1
    /\ \E v \in Vertices :
          /\ ~Anchored(v)
          /\ heap[new_pts][v] # heap[points][v]
          /\ \E u \in adj[v] : ~Anchored(u) /\ heap[new_pts][u] # heap[points][u]

\* C4: with lambd = 0 and iterations >= 1 the returned array equals the
\* input array at every index.
C4_LambdaZeroIdentity ==
    (pc = "done" /\ lambd = R(0) /\ iterations >= 1) => heap[result] = heap[points]

C4_Witness ==
    /\ pc = "done"
    /\ lambd = R(0)
    /\ passes >= 1
    /\ \E v \in Vertices : ~Anchored(v) /\ Centroid(heap[points], v) # heap[points][v]

\* C5: the returned array is a new array object with the same indices as
\* the input, and no step changes the caller's position array or face array.
C5_FreshResultInputUntouched ==
    /\ [](pc = "done" =>
            /\ result # points
            /\ result # 1
            /\ DOMAIN heap[result] = DOMAIN heap[points])
    /\ [][/\ heap'[points] = heap[points]
          /\ heap'[1] = heap[1]
          /\ faces_arr' = faces_arr]_vars

C5_Witness ==
    /\ pc = "done"
    /\ passes >= 1
    /\ result # points
    /\ heap[result] # heap[points]

\* C6: once the connectivity pass has run, the boundary set is exactly the
\* set of vertices that are an endpoint of an edge of multiplicity 1; when
\* every edge has multiplicity 2 it is empty.
C6_BoundarySet ==
    pc \in { "smooth", "done" } =>
        /\ boundary_verts =
              { v \in Vertices : \E u \in Vertices \ { v } : Multiplicity(u, v) = 1 }
        /\ (\A u, v \in Vertices : u # v => Multiplicity(u, v) \in { 0, 2 })
              => boundary_verts = {}

C6_Witness ==
    /\ pc = "smooth"
    /\ Len(faces) >= 3
    /\ \A f \in 1..Len(faces) : WellFormedFace(faces[f])
    /\ boundary_verts # {}
    /\ \E v \in Vertices : v \notin boundary_verts /\ adj[v] # {}

\* C7: a call whose face list holds a face with an index outside [0, N) or
\* with fewer than 3 unique vertices returns no position array (stated for
\* calls with at least one vertex and valid parameters, so that the face is
\* the only defect).
C7_MalformedFaceRejected ==
    (/\ pc = "done"
     /\ N >= 1
     /\ iterations >= 1
     /\ InUnitInterval(lambd))
        => \A f \in 1..Len(faces) : WellFormedFace(faces[f])

\* C8: a call with zero vertices or zero faces returns no position array
\* (stated for calls with valid parameters).
C8_EmptyInputRejected ==
    (/\ ArrLen(heap[points]) = 0 \/ Len(faces_arr) = 0
     /\ iterations >= 1
     /\ InUnitInterval(lambd))
        => pc # "done"

\* C9: invocations run in sequence, each on the positions the previous one
\* returned, return what one invocation on the first input returns for the
\* sum of their iteration counts.
C9_ChainEqualsOneRun ==
    (pc = "done" /\ run >= 2) =>
        heap[result] = SmoothResult(heap[1], faces, lambd, prior_iters + iterations)

C9_Witness ==
    /\ pc = "done"
    /\ run = 3
    /\ heap[points] # heap[1]
    /\ heap[result] # heap[points]

\* C10: every step of the face-decoding loop moves the read position i
\* forward; in particular no step leaves i where it was (such a step
\* repeats forever, since the loop reads nothing but i and the array).
C10_DecodeStepAdvances == [][DecodeFace => i' # i]_vars

====
